---------------------------- MODULE Spec2Model ----------------------------
(***************************************************************************)
(* Model of the documentation organizer (scripts/organize-docs.py) and of  *)
(* the Markdown link checker (scripts/verify-markdown-links.py).           *)
(*                                                                         *)
(* Strings are sequences of one-character strings, so that substring       *)
(* search, replacement, splitting and case conversion are computed the way *)
(* Python computes them.  A path is the sequence of its components, each a *)
(* string, taken relative to ROOT; the empty path is ROOT itself.  The     *)
(* filesystem is the function `tree' from the paths of the regular files   *)
(* to their text, together with the set `dirs' of existing directories.    *)
(***************************************************************************)
EXTENDS Naturals, Integers, Sequences, FiniteSets, Bags, TLC

VARIABLES
    tree,       \* filesystem: path of each regular file |-> its text
    dirs,       \* filesystem: the directories that exist
    fix,        \* organizer main: args.fix
    pc,         \* position of the running script
    stray,      \* organizer main: the list find_stray_markdown() returned
    moves,      \* move_stray_files: the list of (source, destination) built so far
    pending,    \* files the running loop (update_links / checker main) has yet to visit
    updated,    \* update_links: the list of rewritten files
    status,     \* how the run ended: exit code and the message it carries
    log,        \* the runs completed so far, oldest first
    start,      \* the tree the running script started from
    filename,   \* guess_target_folder: its argument
    folder,     \* guess_target_folder: its result
    md_file,    \* resolve_target: current_file
    href,       \* should_check / resolve_target: href
    target,     \* what should_check + resolve_target made of (md_file, href)
    errors,     \* checker main: the error list
    links,      \* the hrefs each file's text was written from (never read by the scripts)
    parts       \* the pieces href was written from (never read by the scripts)

vars == <<tree, dirs, fix, pc, stray, moves, pending, updated, status, log, start,
          filename, folder, md_file, href, target, errors, links, parts>>

orgVars == <<tree, dirs, fix, stray, moves, pending, updated, status, log, start,
            errors, links>>
clsVars == <<filename, folder>>
resVars == <<md_file, href, target, parts>>

-----------------------------------------------------------------------------
(* Bounds of the model.                                                    *)

\* stems are concatenations of at most MaxWords words of Words
MaxWords == 2
\* hrefs given to the resolver have at most MaxSegs path segments
MaxSegs == 3
\* an initial tree of the organizer holds at most MaxFiles files
MaxFiles == 3
\* an initial tree of the organizer holds at most MaxLinks links in all
MaxLinks == 1
\* at most MaxRuns runs of the organizer follow each other
MaxRuns == 3
\* a file given to the checker holds at most MaxHrefs links
MaxHrefs == 2

-----------------------------------------------------------------------------
(* Strings.                                                                *)

\* Python's None, where a string and where a path is expected
NoString == <<"None">>
NoPath == <<<<"None">>>>

Range(s) == {s[i] : i \in 1..Len(s)}

\* s[i:] of Python, i counted from 1
From(s, i) == SubSeq(s, i, Len(s))

\* s.startswith(p)
StartsWith(s, p) == Len(p) <= Len(s) /\ SubSeq(s, 1, Len(p)) = p

\* s.endswith(p)
EndsWith(s, p) == Len(p) <= Len(s) /\ SubSeq(s, Len(s) - Len(p) + 1, Len(s)) = p

\* needle in s
Contains(s, needle) ==
    \E i \in 1..(Len(s) - Len(needle) + 1) : SubSeq(s, i, i + Len(needle) - 1) = needle

\* s.find(c) for a single character, counted from 1; 0 when absent
Find(s, c) ==
    IF \E i \in 1..Len(s) : s[i] = c
    THEN CHOOSE i \in 1..Len(s) : s[i] = c /\ \A j \in 1..(i - 1) : s[j] # c
    ELSE 0

\* s.rfind(c) for a single character, counted from 1; 0 when absent
RFind(s, c) ==
    IF \E i \in 1..Len(s) : s[i] = c
    THEN CHOOSE i \in 1..Len(s) : s[i] = c /\ \A j \in (i + 1)..Len(s) : s[j] # c
    ELSE 0

\* s.split(c, 1)[0]
Before(s, c) == IF Find(s, c) = 0 THEN s ELSE SubSeq(s, 1, Find(s, c) - 1)

\* s.replace(old, new): the occurrences of old are found left to right and do
\* not overlap; the replacement text is not searched again
RECURSIVE Replace(_, _, _)
Replace(s, old, new) ==
    IF Len(s) < Len(old) THEN s
    ELSE IF SubSeq(s, 1, Len(old)) = old
         THEN new \o Replace(From(s, Len(old) + 1), old, new)
         ELSE <<Head(s)>> \o Replace(Tail(s), old, new)

\* s.split(c): the pieces between the occurrences of c, empty pieces included
RECURSIVE Split(_, _)
Split(s, c) ==
    IF Find(s, c) = 0 THEN <<s>>
    ELSE <<SubSeq(s, 1, Find(s, c) - 1)>> \o Split(From(s, Find(s, c) + 1), c)

\* c.join(ss)
RECURSIVE Join(_, _)
Join(ss, c) ==
    IF ss = <<>> THEN <<>>
    ELSE IF Len(ss) = 1 THEN ss[1]
    ELSE ss[1] \o <<c>> \o Join(Tail(ss), c)

LowerLetters == <<"a","b","c","d","e","f","g","h","i","j","k","l","m","n","o","p","q","r","s","t","u","v","w","x","y","z">>
UpperLetters == <<"A","B","C","D","E","F","G","H","I","J","K","L","M","N","O","P","Q","R","S","T","U","V","W","X","Y","Z">>

UpperChar(c) ==
    IF \E i \in 1..26 : LowerLetters[i] = c
    THEN UpperLetters[CHOOSE i \in 1..26 : LowerLetters[i] = c]
    ELSE c

LowerChar(c) ==
    IF \E i \in 1..26 : UpperLetters[i] = c
    THEN LowerLetters[CHOOSE i \in 1..26 : UpperLetters[i] = c]
    ELSE c

\* s.upper(), s.lower() (ASCII)
Upper(s) == [i \in 1..Len(s) |-> UpperChar(s[i])]
Lower(s) == [i \in 1..Len(s) |-> LowerChar(s[i])]

IsSpace(c) == c = " "

\* s.strip()
RECURSIVE LStrip(_)
LStrip(s) == IF s # <<>> /\ IsSpace(Head(s)) THEN LStrip(Tail(s)) ELSE s
RECURSIVE RStrip(_)
RStrip(s) ==
    IF s # <<>> /\ IsSpace(s[Len(s)]) THEN RStrip(SubSeq(s, 1, Len(s) - 1)) ELSE s
Strip(s) == RStrip(LStrip(s))

\* the sequences over S of length at most n
SeqUpTo(S, n) == UNION {[1..k -> S] : k \in 0..n}

\* the concatenation of a sequence of strings
RECURSIVE Concat(_)
Concat(ss) == IF ss = <<>> THEN <<>> ELSE Head(ss) \o Concat(Tail(ss))

\* the orders in which the elements of the finite set S can be enumerated
Orders(S) ==
    {o \in [1..Cardinality(S) -> S] : \A x \in S : \E i \in DOMAIN o : o[i] = x}

-----------------------------------------------------------------------------
(* Paths (pathlib / os.path), relative to ROOT.                            *)

\* pathlib.Path(text): the components of a relative path; empty components
\* and "." components are dropped, ".." is kept
PathOf(text) == SelectSeq(Split(text, "/"), LAMBDA c : c # <<>> /\ c # <<".">>)

\* path.as_posix(); the empty path is "."
AsPosix(path) == IF path = <<>> THEN <<".">> ELSE Join(path, "/")

\* path.parent
Parent(path) == SubSeq(path, 1, Len(path) - 1)

\* path.name
Name(path) == path[Len(path)]

\* path.stem: the name without its last suffix (a leading dot starts no suffix)
Stem(path) ==
    LET n == Name(path)
        i == RFind(n, ".")
    IN  IF i > 1 /\ i < Len(n) THEN SubSeq(n, 1, i - 1) ELSE n

\* a / b
Child(a, b) == a \o b

\* prefix in path.parents or path == prefix
IsUnder(path, prefix) == Len(prefix) <= Len(path) /\ SubSeq(path, 1, Len(prefix)) = prefix

\* the length of the longest common prefix of two paths
RECURSIVE CommonLen(_, _)
CommonLen(a, b) ==
    IF a = <<>> \/ b = <<>> \/ Head(a) # Head(b) THEN 0
    ELSE 1 + CommonLen(Tail(a), Tail(b))

\* os.path.relpath(to, start), both inside ROOT: one ".." for each component
\* of base below the common prefix, then the rest of `to'
RelPath(to, base) ==
    LET c == CommonLen(to, base)
    IN  [i \in 1..(Len(base) - c) |-> <<".",".">>] \o From(to, c + 1)

\* the directories above a path, the path itself left out
Ancestors(path) == {SubSeq(path, 1, k) : k \in 1..(Len(path) - 1)}

-----------------------------------------------------------------------------
(* organize-docs.py: configuration.                                        *)

SKIP_DIRS ==
    {<<"n","o","d","e","_","m","o","d","u","l","e","s">>, <<"v","e","n","d","o","r">>, <<"s","t","o","r","a","g","e">>, <<"p","u","b","l","i","c">>, <<"b","o","o","t","s","t","r","a","p">>,
     <<".","g","i","t">>, <<".","i","d","e","a">>, <<".","v","s","c","o","d","e">>, <<"v","e","n","d","o","r","-","b","i","n">>}

ALLOWED_ROOT_FILES == {<<<<"R","E","A","D","M","E",".","m","d">>>>}

ALLOWED_PREFIXES ==
    {<<<<"d","o","c","s">>>>, <<<<"t","e","s","t","s">>>>, <<<<"r","e","s","o","u","r","c","e","s">>, <<"m","a","r","k","d","o","w","n">>>>,
     <<<<".","g","i","t","h","u","b">>>>, <<<<".","k","i","r","o">>>>}

TEXT_SUFFIXES ==
    {<<".","m","d">>, <<".","m","d","x">>, <<".","p","h","p">>, <<".","b","l","a","d","e",".","p","h","p">>, <<".","j","s">>, <<".","t","s">>, <<".","t","s","x">>,
     <<".","j","s","o","n">>, <<".","y","a","m","l">>, <<".","y","m","l">>, <<".","n","e","o","n">>, <<".","x","m","l">>, <<".","h","t","m","l">>, <<".","c","s","s">>,
     <<".","s","c","s","s">>, <<".","t","x","t">>}

\* should_skip(path)
should_skip(path) == \E i \in 1..Len(path) : path[i] \in SKIP_DIRS

\* is_allowed(path)
is_allowed(path) ==
    \/ path \in ALLOWED_ROOT_FILES
    \/ \E prefix \in ALLOWED_PREFIXES : IsUnder(path, prefix)

\* ROOT.rglob("*.md"): the files whose name ends in .md, a name that is only
\* ".md" included
IsMarkdown(path) == path # <<>> /\ EndsWith(Name(path), <<".","m","d">>)

\* find_markdown(), as the set of the paths it yields
find_markdown(t) == {p \in DOMAIN t : IsMarkdown(p) /\ ~should_skip(p)}

\* a slip that scans the top level only (glob in the place of rglob)
FindStrayTopLevel(t) == {p \in find_markdown(t) : Len(p) = 1 /\ ~is_allowed(p)}

\* find_stray_markdown(), as the set of the paths in the list it returns
find_stray_markdown(t) == {p \in find_markdown(t) : ~is_allowed(p)}

-----------------------------------------------------------------------------
(* organize-docs.py: guess_target_folder.                                  *)

\* the rule table: keywords, folder
patterns == <<
    <<<<<<"N","E","W","S">>, <<"S","E","C","U","R","I","T","Y">>>>, <<"d","o","c","s","/","n","e","w","s","/","s","e","c","u","r","i","t","y">>>>,
    <<<<<<"N","E","W","S">>>>, <<"d","o","c","s","/","n","e","w","s">>>>,
    <<<<<<"A","D","M","I","N">>>>, <<"d","o","c","s","/","a","d","m","i","n">>>>,
    <<<<<<"C","O","M","M","E","N","T">>>>, <<"d","o","c","s","/","c","o","m","m","e","n","t","s">>>>,
    <<<<<<"D","E","S","I","G","N">>, <<"T","O","K","E","N">>>>, <<"d","o","c","s","/","d","e","s","i","g","n","-","t","o","k","e","n","s">>>>,
    <<<<<<"A","C","C","E","S","S">>>>, <<"d","o","c","s","/","a","c","c","e","s","s","i","b","i","l","i","t","y">>>>,
    <<<<<<"I","N","T","E","R","F","A","C","E">>>>, <<"d","o","c","s","/","i","n","t","e","r","f","a","c","e">>>>,
    <<<<<<"O","P","T","I","M","I","S","T","I","C">>>>, <<"d","o","c","s","/","o","p","t","i","m","i","s","t","i","c","-","u","i">>>>,
    <<<<<<"S","C","O","P","E">>>>, <<"d","o","c","s","/","q","u","e","r","y","-","s","c","o","p","e","s">>>>,
    <<<<<<"S","E","C","U","R","I","T","Y">>>>, <<"d","o","c","s","/","s","e","c","u","r","i","t","y">>>>,
    <<<<<<"V","A","L","I","D","A","T","I","O","N">>>>, <<"d","o","c","s","/","v","a","l","i","d","a","t","i","o","n">>>>,
    <<<<<<"R","E","Q","U","E","S","T">>>>, <<"d","o","c","s","/","v","a","l","i","d","a","t","i","o","n">>>>,
    <<<<<<"R","O","U","T","E">>>>, <<"d","o","c","s","/","r","o","u","t","i","n","g">>>>,
    <<<<<<"U","I">>>>, <<"d","o","c","s","/","u","i","-","u","x">>>>,
    <<<<<<"U","X">>>>, <<"d","o","c","s","/","u","i","-","u","x">>>>,
    <<<<<<"T","A","I","L","W","I","N","D">>>>, <<"d","o","c","s","/","u","i","-","u","x">>>>,
    <<<<<<"M","O","D","A","L">>>>, <<"d","o","c","s","/","u","i","-","u","x">>>>,
    <<<<<<"P","R","O","J","E","C","T">>>>, <<"d","o","c","s","/","p","r","o","j","e","c","t">>>>,
    <<<<<<"P","L","A","N">>>>, <<"d","o","c","s","/","p","l","a","n","n","i","n","g">>>>,
    <<<<<<"T","O","D","O">>>>, <<"d","o","c","s","/","p","l","a","n","n","i","n","g">>>>,
    <<<<<<"T","A","S","K">>>>, <<"d","o","c","s","/","p","l","a","n","n","i","n","g">>>>,
    <<<<<<"D","O","C","U","M","E","N","T","A","T","I","O","N">>>>, <<"d","o","c","s","/","d","o","c","u","m","e","n","t","a","t","i","o","n">>>>,
    <<<<<<"I","1","8","N">>>>, <<"d","o","c","s","/","i","1","8","n">>>>,
    <<<<<<"L","O","C","A","L","E">>>>, <<"d","o","c","s","/","i","1","8","n">>>>,
    <<<<<<"L","I","V","E","W","I","R","E">>>>, <<"d","o","c","s","/","l","i","v","e","w","i","r","e">>>>,
    <<<<<<"V","O","L","T">>>>, <<"d","o","c","s","/","v","o","l","t">>>>,
    <<<<<<"A","P","I">>>>, <<"d","o","c","s","/","a","p","i">>>>
>>

DefaultFolder == <<"d","o","c","s","/","m","i","s","c">>

\* the loop over the rule table from rule i on: the first rule all of whose
\* keywords occur in name decides
RECURSIVE FirstMatch(_, _)
FirstMatch(name, i) ==
    IF i > Len(patterns) THEN DefaultFolder
    ELSE IF \A k \in 1..Len(patterns[i][1]) : Contains(name, patterns[i][1][k])
         THEN patterns[i][2]
         ELSE FirstMatch(name, i + 1)

\* a slip that forgets filename.upper()
GuessNoUpper(stem) == PathOf(FirstMatch(stem, 1))

\* the loop with any(...) in the place of all(...)
RECURSIVE FirstAnyMatch(_, _)
FirstAnyMatch(name, i) ==
    IF i > Len(patterns) THEN DefaultFolder
    ELSE IF \E k \in 1..Len(patterns[i][1]) : Contains(name, patterns[i][1][k])
         THEN patterns[i][2]
         ELSE FirstAnyMatch(name, i + 1)

\* a slip that takes a rule when any one of its keywords occurs
GuessAnyKeyword(stem) == PathOf(FirstAnyMatch(Upper(stem), 1))

\* guess_target_folder(filename), as a path relative to ROOT
guess_target_folder(stem) == PathOf(FirstMatch(Upper(stem), 1))

-----------------------------------------------------------------------------
(* Values of the variables a specification does not use.                   *)

\* no run has ended
NoStatus == [code |-> -1]

OrgIdle ==
    /\ tree = <<>> /\ dirs = {} /\ fix = FALSE /\ stray = <<>> /\ moves = <<>>
    /\ pending = {} /\ updated = <<>> /\ status = NoStatus /\ log = <<>>
    /\ start = <<>> /\ errors = <<>> /\ links = <<>>
ClsIdle == filename = NoString /\ folder = NoPath
ResIdle == md_file = NoPath /\ href = NoString /\ target = NoPath /\ parts = <<>>

-----------------------------------------------------------------------------
(* The classifier on its own: a stem is drawn, guess_target_folder is      *)
(* applied to it.                                                          *)

\* the words stems are made of: every keyword of the table in some letter
\* case, words that hold a keyword inside them, and words that hold none
Words ==
    {<<"n","e","w","s">>, <<"N","e","w","s">>, <<"S","E","C","U","R","I","T","Y">>, <<"s","e","c","u","r","i","t","y">>, <<"a","d","m","i","n">>, <<"C","o","m","m","e","n","t">>,
     <<"d","e","s","i","g","n">>, <<"T","O","K","E","N">>, <<"a","c","c","e","s","s">>, <<"i","n","t","e","r","f","a","c","e">>, <<"o","p","t","i","m","i","s","t","i","c">>,
     <<"s","c","o","p","e">>, <<"v","a","l","i","d","a","t","i","o","n">>, <<"r","e","q","u","e","s","t">>, <<"r","o","u","t","e">>, <<"u","i">>, <<"u","x">>,
     <<"t","a","i","l","w","i","n","d">>, <<"m","o","d","a","l">>, <<"p","r","o","j","e","c","t">>, <<"p","l","a","n">>, <<"t","o","d","o">>, <<"t","a","s","k">>,
     <<"d","o","c","u","m","e","n","t","a","t","i","o","n">>, <<"i","1","8","n">>, <<"l","o","c","a","l","e">>, <<"l","i","v","e","w","i","r","e">>, <<"v","o","l","t">>, <<"a","p","i">>,
     <<"g","u","i","d","e">>, <<"N","O","T","E","S">>, <<"_">>, <<"n","e">>, <<"w","s">>, <<"x">>}

Stems == {Concat(ws) : ws \in SeqUpTo(Words, MaxWords)}

InitClassify ==
    /\ filename \in Stems
    /\ folder = NoPath
    /\ pc = "classify"
    /\ OrgIdle /\ ResIdle

Classify ==
    /\ pc = "classify"
    /\ folder' = guess_target_folder(filename)
    /\ pc' = "classified"
    /\ UNCHANGED <<filename, orgVars, resVars>>

NextClassify == Classify

SpecClassify == InitClassify /\ [][NextClassify]_vars

\* rule i of the table matches the stem: each of its keywords occurs in the
\* stem, letter case ignored
SameLetters(s, t) ==
    /\ Len(s) = Len(t)
    /\ \A i \in 1..Len(s) : s[i] = t[i] \/ UpperChar(s[i]) = t[i] \/ s[i] = UpperChar(t[i])

Occurs(stem, keyword) ==
    \E i \in 1..(Len(stem) - Len(keyword) + 1) :
        SameLetters(SubSeq(stem, i, i + Len(keyword) - 1), keyword)

RuleMatches(i, stem) == \A k \in 1..Len(patterns[i][1]) : Occurs(stem, patterns[i][1][k])

\* C5: guess_target_folder returns the folder of the first rule of the table
\* whose keywords all occur in the stem (letter case ignored), docs/misc when
\* no rule matches; a stem with both NEWS and SECURITY in it goes to
\* docs/news/security
C5_FirstMatchWins ==
    pc = "classified" =>
        /\ \A i \in 1..Len(patterns) :
              (RuleMatches(i, filename) /\ \A j \in 1..(i - 1) : ~RuleMatches(j, filename))
                  => folder = PathOf(patterns[i][2])
        /\ (\A i \in 1..Len(patterns) : ~RuleMatches(i, filename))
              => folder = <<<<"d","o","c","s">>, <<"m","i","s","c">>>>
        /\ (Occurs(filename, <<"N","E","W","S">>) /\ Occurs(filename, <<"S","E","C","U","R","I","T","Y">>))
              => folder = <<<<"d","o","c","s">>, <<"n","e","w","s">>, <<"s","e","c","u","r","i","t","y">>>>

\* a stem with the security keyword before the news keyword, in mixed case,
\* has been classified
C5_Witness ==
    /\ pc = "classified"
    /\ filename = <<"s","e","c","u","r","i","t","y","N","e","w","s">>
    /\ folder = <<<<"d","o","c","s">>, <<"n","e","w","s">>, <<"s","e","c","u","r","i","t","y">>>>

-----------------------------------------------------------------------------
(* verify-markdown-links.py: should_check and resolve_target.              *)

\* ROOT as an absolute path of the host: the directory two levels above the
\* script file
ROOT == <<<<"s","r","v">>, <<"r","e","p","o">>>>

SKIP_SCHEMES == {<<"h","t","t","p">>, <<"h","t","t","p","s">>, <<"m","a","i","l","t","o">>, <<"t","e","l">>}

Digits == <<"0","1","2","3","4","5","6","7","8","9">>

\* the characters a URL scheme is made of
IsSchemeChar(c) ==
    \/ c \in Range(LowerLetters) \/ c \in Range(UpperLetters) \/ c \in Range(Digits)
    \/ c \in {"+", "-", "."}

\* the first of the characters of stop in s, counted from 1; Len(s) + 1 when
\* there is none
FirstOf(s, stop) ==
    IF \E i \in 1..Len(s) : s[i] \in stop
    THEN CHOOSE i \in 1..Len(s) : s[i] \in stop /\ \A j \in 1..(i - 1) : s[j] \notin stop
    ELSE Len(s) + 1

\* urllib.parse.urlparse(url): scheme, netloc, path, query, fragment
urlparse(url) ==
    LET colon == Find(url, ":")
        hasScheme ==
            /\ colon > 1
            /\ url[1] \in Range(LowerLetters) \cup Range(UpperLetters)
            /\ \A i \in 1..(colon - 1) : IsSchemeChar(url[i])
        scheme == IF hasScheme THEN Lower(SubSeq(url, 1, colon - 1)) ELSE <<>>
        rest1 == IF hasScheme THEN From(url, colon + 1) ELSE url
        hasNetloc == StartsWith(rest1, <<"/","/">>)
        netEnd == FirstOf(From(rest1, 3), {"/", "?", "#"})
        netloc == IF hasNetloc THEN SubSeq(From(rest1, 3), 1, netEnd - 1) ELSE <<>>
        rest2 == IF hasNetloc THEN From(From(rest1, 3), netEnd) ELSE rest1
        hash == Find(rest2, "#")
        fragment == IF hash = 0 THEN <<>> ELSE From(rest2, hash + 1)
        rest3 == IF hash = 0 THEN rest2 ELSE SubSeq(rest2, 1, hash - 1)
        quest == Find(rest3, "?")
        query == IF quest = 0 THEN <<>> ELSE From(rest3, quest + 1)
        path == IF quest = 0 THEN rest3 ELSE SubSeq(rest3, 1, quest - 1)
    IN  [scheme |-> scheme, netloc |-> netloc, path |-> path,
         query |-> query, fragment |-> fragment]

\* the percent escapes that decode to a character of the model's alphabet
Escapes == {<<<<"2","E">>, ".">>, <<<<"2","e">>, ".">>, <<<<"2","3">>, "#">>, <<<<"3","F">>, "?">>,
            <<<<"2","F">>, "/">>, <<<<"2","0">>, " ">>}

\* urllib.parse.unquote(s)
RECURSIVE unquote(_)
unquote(s) ==
    IF s = <<>> THEN <<>>
    ELSE IF /\ Head(s) = "%"
            /\ Len(s) >= 3
            /\ \E e \in Escapes : e[1] = SubSeq(s, 2, 3)
         THEN <<(CHOOSE e \in Escapes : e[1] = SubSeq(s, 2, 3))[2]>> \o unquote(From(s, 4))
         ELSE <<Head(s)>> \o unquote(Tail(s))

\* should_check(href)
should_check(h) ==
    LET s == Strip(h)
    IN  /\ s # <<>>
        /\ ~StartsWith(s, <<"#">>)
        /\ ~StartsWith(s, <<"/","/">>)
        /\ urlparse(s).scheme \notin SKIP_SCHEMES
        /\ EndsWith(urlparse(s).path, <<".","m","d">>)

\* Path.resolve() of an absolute path without symbolic links: "." and empty
\* components go, ".." drops the component before it, and the parent of the
\* host's root is that root
RECURSIVE resolve(_, _)
resolve(done, todo) ==
    IF todo = <<>> THEN done
    ELSE IF Head(todo) \in {<<>>, <<".">>} THEN resolve(done, Tail(todo))
    ELSE IF Head(todo) = <<".",".">>
         THEN resolve(IF done = <<>> THEN <<>> ELSE Parent(done), Tail(todo))
         ELSE resolve(Append(done, Head(todo)), Tail(todo))

\* a slip that resolves a path starting with "/" like a relative one
ResolveTargetNoRoot(current_file, h) ==
    LET path == Before(Before(unquote(urlparse(h).path), "#"), "?")
        t == resolve(<<>>, ROOT \o Parent(current_file) \o Split(path, "/"))
    IN  IF IsUnder(t, ROOT) THEN From(t, Len(ROOT) + 1) ELSE NoPath

\* resolve_target(current_file, href): the target relative to ROOT, or None;
\* current_file is relative to ROOT
resolve_target(current_file, h) ==
    LET path == Before(Before(unquote(urlparse(h).path), "#"), "?")
        t == IF ~StartsWith(path, <<"/">>)
             THEN resolve(<<>>, ROOT \o Parent(current_file) \o Split(path, "/"))
             ELSE resolve(<<>>, ROOT \o Split(path, "/"))
    IN  IF IsUnder(t, ROOT) THEN From(t, Len(ROOT) + 1) ELSE NoPath

\* LINK_RE.finditer(text), as the list of the hrefs (group 1) of the matches:
\* "[", a label of one or more characters other than "]", "](", an href of
\* one or more characters other than ")", ")"; the search goes on after a match
RECURSIVE LinkHrefs(_)
LinkHrefs(s) ==
    IF s = <<>> THEN <<>>
    ELSE IF Head(s) # "[" THEN LinkHrefs(Tail(s))
    ELSE LET close == Find(Tail(s), "]")
             rest == From(s, close + 3)
             paren == Find(rest, ")")
         IN  IF /\ close >= 2
                /\ Len(s) >= close + 2
                /\ s[close + 2] = "("
                /\ paren >= 2
             THEN <<SubSeq(rest, 1, paren - 1)>> \o LinkHrefs(From(rest, paren + 1))
             ELSE LinkHrefs(Tail(s))

\* iter_markdown(), as the set of the paths in the list it returns
iter_markdown(t) ==
    {p \in DOMAIN t : EndsWith(Name(p), <<".","m","d">>) /\ \A i \in 1..Len(p) : p[i] \notin SKIP_DIRS}

\* the test of one link in checker main, line 94: the link is broken
Broken(t, md, h) ==
    LET tg == resolve_target(md, h)
    IN  tg = NoPath \/ ~(tg \in DOMAIN t \/ tg \in UNION {Ancestors(f) : f \in DOMAIN t} \/ tg = <<>>)

-----------------------------------------------------------------------------
(* The resolver on its own: a referencing file and an href are drawn, the  *)
(* checker's test of one link (should_check, then resolve_target) is       *)
(* applied to them.                                                        *)

\* what the checker does with an href should_check refuses
Skipped == <<<<"skipped">>>>

\* how an href starts: nothing, a root slash, a protocol-relative host, a scheme
Leads == {<<>>, <<"/">>, <<"/","/","h","/">>, <<"h","t","t","p","s",":","/","/","h","/">>, <<"H","T","T","P",":","/","/","h","/">>, <<"m","a","i","l","t","o",":">>,
          <<"t","e","l",":">>, <<"f","t","p",":","/","/","h","/">>}

\* the path segments hrefs are made of
SegNames == {<<".">>, <<".",".">>, <<"d","o","c","s">>, <<"r","e","p","o">>, <<"b",".","m","d">>, <<"c",".","t","x","t">>, <<"%","2","E","%","2","E">>}

\* how an href ends: nothing, a fragment, a query, both, a blank
Tails == {<<>>, <<"#","s">>, <<"?","q">>, <<"?","q","#","s">>, <<" ">>}

\* the rows of the resolver's correctness table
TableParts ==
    {[lead |-> <<>>, segs |-> <<<<".">>, <<"b",".","m","d">>>>, tail |-> <<>>],
     [lead |-> <<>>, segs |-> <<<<".",".">>, <<"R","E","A","D","M","E",".","m","d">>>>, tail |-> <<>>],
     [lead |-> <<"/">>, segs |-> <<<<"d","o","c","s">>, <<"c",".","m","d">>>>, tail |-> <<>>],
     [lead |-> <<>>, segs |-> <<<<".",".">>, <<".",".">>, <<"o","u","t","s","i","d","e",".","m","d">>>>, tail |-> <<>>],
     [lead |-> <<"h","t","t","p","s",":","/","/">>, segs |-> <<<<"e","x","a","m","p","l","e",".","c","o","m">>, <<"x",".","m","d">>>>, tail |-> <<>>],
     [lead |-> <<>>, segs |-> <<>>, tail |-> <<"#","s","e","c","t","i","o","n">>]}

HrefParts ==
    [lead : Leads, segs : SeqUpTo(SegNames, MaxSegs), tail : Tails] \cup TableParts

\* the href as written in a link
Render(p) == p.lead \o Join(p.segs, "/") \o p.tail

ReferencingFiles ==
    {<<<<"R","E","A","D","M","E",".","m","d">>>>, <<<<"d","o","c","s">>, <<"a",".","m","d">>>>, <<<<"d","o","c","s">>, <<"s","u","b">>, <<"a",".","m","d">>>>}

InitResolve ==
    /\ md_file \in ReferencingFiles
    /\ parts \in HrefParts
    /\ href = Render(parts)
    /\ target = NoPath
    /\ pc = "link"
    /\ OrgIdle /\ ClsIdle

\* one turn of the checker's inner loop, lines 89-93
CheckLink ==
    /\ pc = "link"
    /\ target' = IF should_check(href) THEN resolve_target(md_file, href) ELSE Skipped
    /\ pc' = "resolved"
    /\ UNCHANGED <<md_file, href, parts, orgVars, clsVars>>

NextResolve == CheckLink

SpecResolve == InitResolve /\ [][NextResolve]_vars

\* the reference resolver, on the pieces of the href

RefSchemes == {<<"h","t","t","p",":">>, <<"h","t","t","p","s",":">>, <<"m","a","i","l","t","o",":">>, <<"t","e","l",":">>}

\* empty, pure fragment, protocol-relative, or an external scheme
RefOutOfScope(p) ==
    \/ p.lead = <<>> /\ p.segs = <<>> /\ p.tail \in {<<>>, <<"#","s">>, <<"#","s","e","c","t","i","o","n">>}
    \/ StartsWith(p.lead, <<"/","/">>)
    \/ \E s \in RefSchemes : StartsWith(Lower(p.lead), s)

\* the path names a Markdown file
RefMarkdown(p) == p.segs # <<>> /\ EndsWith(p.segs[Len(p.segs)], <<".","m","d">>)

\* the path starts with "/"
RefRooted(p) == p.lead # <<>> /\ p.lead[Len(p.lead)] = "/"

RefDecode(seg) == IF seg = <<"%","2","E","%","2","E">> THEN <<".",".">> ELSE seg

\* "." and ".." taken out of an absolute path: the leftmost ".." goes with
\* the component before it, or alone when it is the first
RECURSIVE RefNormal(_)
RefNormal(p) ==
    LET q == SelectSeq(p, LAMBDA c : c # <<".">>)
    IN  IF \A i \in 1..Len(q) : q[i] # <<".",".">> THEN q
        ELSE LET i == CHOOSE i \in 1..Len(q) :
                          q[i] = <<".",".">> /\ \A j \in 1..(i - 1) : q[j] # <<".",".">>
             IN  IF i = 1 THEN RefNormal(Tail(q))
                 ELSE RefNormal(SubSeq(q, 1, i - 2) \o From(q, i + 1))

RefTarget(file, p) ==
    LET segs == [i \in 1..Len(p.segs) |-> RefDecode(p.segs[i])]
        full == RefNormal(IF RefRooted(p) THEN ROOT \o segs ELSE ROOT \o Parent(file) \o segs)
    IN  IF IsUnder(full, ROOT) THEN From(full, Len(ROOT) + 1) ELSE NoPath

DocsA == <<<<"d","o","c","s">>, <<"a",".","m","d">>>>

\* the rows of the table, as (file, href, outcome)
C3_Table ==
    /\ (md_file = DocsA /\ href = <<".","/","b",".","m","d">>) => target = <<<<"d","o","c","s">>, <<"b",".","m","d">>>>
    /\ (md_file = DocsA /\ href = <<".",".","/","R","E","A","D","M","E",".","m","d">>) => target = <<<<"R","E","A","D","M","E",".","m","d">>>>
    /\ (md_file = DocsA /\ href = <<"/","d","o","c","s","/","c",".","m","d">>) => target = <<<<"d","o","c","s">>, <<"c",".","m","d">>>>
    /\ (md_file = DocsA /\ href = <<".",".","/",".",".","/","o","u","t","s","i","d","e",".","m","d">>) => target = NoPath
    /\ href = <<"h","t","t","p","s",":","/","/","e","x","a","m","p","l","e",".","c","o","m","/","x",".","m","d">> => target = Skipped
    /\ href = <<"#","s","e","c","t","i","o","n">> => target = Skipped

-----------------------------------------------------------------------------
(* organize-docs.py: the filesystem, move_stray_files, update_links, main. *)

\* str(n) of a natural number
RECURSIVE Str(_)
Str(n) == IF n < 10 THEN <<Digits[n + 1]>> ELSE Str(n \div 10) \o <<Digits[(n % 10) + 1]>>

\* str(path) of a path under ROOT: the absolute path of the host
AbsText(path) == <<"/">> \o Join(ROOT \o path, "/")

\* path.exists()
Exists(t, d, path) == path \in DOMAIN t \/ path \in d \/ path = <<>>

\* target_dir.mkdir(parents=True, exist_ok=True)
Mkdir(d, dir) == d \cup Ancestors(dir) \cup {dir}

\* shutil.move(source, destination) of a regular file to a free place
MoveFile(t, source, destination) ==
    [p \in (DOMAIN t \ {source}) \cup {destination} |->
        IF p = destination THEN t[source] ELSE t[p]]

\* where move_stray_files puts a stray file
Destination(source) == Child(guess_target_folder(Stem(source)), <<Name(source)>>)

\* iter_text_files(), as the set of the paths it yields
iter_text_files(t) ==
    {p \in DOMAIN t : ~should_skip(p) /\ \E suffix \in TEXT_SUFFIXES : EndsWith(Name(p), suffix)}

\* the old spellings update_links looks for in file_path for one move
Candidates(file_path, move) ==
    LET old_rel == AsPosix(move[1])
        old_rel_from_file == AsPosix(RelPath(move[1], Parent(file_path)))
    IN  {old_rel, <<".","/">> \o old_rel, old_rel_from_file, <<".","/">> \o old_rel_from_file}

\* the inner loop of update_links, lines 171-173, with the needles taken in
\* the order given
RECURSIVE ReplaceAll(_, _, _)
ReplaceAll(text, needles, new_rel) ==
    IF needles = <<>> THEN text
    ELSE ReplaceAll(IF Contains(text, Head(needles))
                    THEN Replace(text, Head(needles), new_rel)
                    ELSE text,
                    Tail(needles), new_rel)

\* the loop over the moves, lines 158-173: the texts update_links can leave
\* in file_path, starting from one of `texts'.  The candidates are a Python
\* set of strings, enumerated in an order that changes with the hash seed of
\* the process: every order counts
RECURSIVE Rewritings(_, _, _)
Rewritings(texts, file_path, mapping) ==
    IF mapping = <<>> THEN texts
    ELSE LET move == Head(mapping)
             new_rel == AsPosix(RelPath(move[2], Parent(file_path)))
             candidates == Candidates(file_path, move)
             orders == Orders(candidates)
             \* a text none of the candidates occurs in stays as it is
             step(text) == IF \A needle \in candidates : ~Contains(text, needle)
                           THEN {text}
                           ELSE {ReplaceAll(text, needles, new_rel) : needles \in orders}
         IN  Rewritings(UNION {step(text) : text \in texts}, file_path, Tail(mapping))

\* the outer loop of update_links, lines 151-177: the trees it can leave,
\* starting from one of `trees', once the files of `files' are rewritten
RECURSIVE RewrittenTrees(_, _, _)
RewrittenTrees(trees, files, mapping) ==
    IF files = {} THEN trees
    ELSE LET file_path == CHOOSE f \in files : TRUE
             step(t) == {[t EXCEPT ![file_path] = text] :
                            text \in Rewritings({t[file_path]}, file_path, mapping)}
         IN  RewrittenTrees(UNION {step(t) : t \in trees}, files \ {file_path}, mapping)

\* ensure_docs_root_only_index: the offending files
DocsRootStrays(t) ==
    {p \in DOMAIN t : /\ Len(p) = 2
                      /\ p[1] = <<"d","o","c","s">>
                      /\ EndsWith(p[2], <<".","m","d">>)
                      /\ p[2] # <<"R","E","A","D","M","E",".","m","d">>}

\* "\n".join(f" - {p.relative_to(ROOT)}" for p in paths), for the paths in
\* some order
RECURSIVE Listing(_)
Listing(paths) ==
    IF paths = <<>> THEN <<>>
    ELSE <<" ","-"," ">> \o AsPosix(Head(paths)) \o (IF Len(paths) > 1 THEN <<" ">> ELSE <<>>)
         \o Listing(Tail(paths))

\* the messages of the SystemExit exceptions
MsgOverwrite(destination) ==
    <<"R","e","f","u","s","i","n","g"," ","t","o"," ","o","v","e","r","w","r","i","t","e"," ","e","x","i","s","t","i","n","g"," ","f","i","l","e",":"," ">> \o AbsText(destination)
    \o <<"."," ","R","e","s","o","l","v","e"," ","t","h","e"," ","c","o","n","f","l","i","c","t"," ","a","n","d"," ","r","e","r","u","n"," ","t","h","e"," ","c","o","m","m","a","n","d",".">>

MsgFound(n) ==
    <<"F","o","u","n","d"," ">> \o Str(n)
    \o <<" ","M","a","r","k","d","o","w","n"," ","f","i","l","e","(","s",")"," ","o","u","t","s","i","d","e"," ","d","o","c","s","/","."," ","R","e","-","r","u","n"," ","w","i","t","h"," ","-","-","f","i","x"," ","t","o"," ","m","o","v","e"," ","t","h","e","m"," ","a","u","t","o","m","a","t","i","c","a","l","l","y",".">>

MsgDocsRoot(paths) ==
    <<"D","o","c","s"," ","r","o","o","t"," ","s","h","o","u","l","d"," ","o","n","l","y"," ","c","o","n","t","a","i","n"," ","d","o","c","s","/","R","E","A","D","M","E",".","m","d","."," ","M","o","v","e"," ","t","h","e","s","e"," ","f","i","l","e","s"," ","i","n","t","o"," ","f","u","n","c","t","i","o","n"," ","f","o","l","d","e","r","s",":"," ">>
    \o Listing(paths)

MsgRemaining(paths) ==
    <<"S","o","m","e"," ","M","a","r","k","d","o","w","n"," ","f","i","l","e","s"," ","a","r","e"," ","s","t","i","l","l"," ","o","u","t","s","i","d","e"," ","d","o","c","s","/"," ","a","f","t","e","r"," ","a","t","t","e","m","p","t","i","n","g"," ","t","o"," ","f","i","x",":"," ">>
    \o Listing(paths)

MsgComplete == <<"D","o","c","s"," ","v","e","r","i","f","i","c","a","t","i","o","n"," ","c","o","m","p","l","e","t","e",".">>

\* what a finished run leaves in the log
Record(code, message, t) ==
    [fix |-> fix, code |-> code, message |-> message, before |-> start, after |-> t,
     moves |-> moves, updated |-> updated]

\* the script ends: SystemExit(message) exits with code 1, a return from
\* main with code 0; the variables of the process are gone
Finish(code, message, t) ==
    /\ status' = [code |-> code, message |-> message]
    /\ log' = Append(log, Record(code, message, t))
    /\ pc' = "idle"
    /\ fix' = FALSE /\ stray' = <<>> /\ moves' = <<>> /\ updated' = <<>> /\ start' = <<>>

\* a new process starts: the arguments are read
Launch ==
    /\ pc = "idle"
    /\ Len(log) < MaxRuns
    /\ fix' \in BOOLEAN
    /\ start' = tree
    /\ status' = NoStatus
    /\ pc' = "scan"
    /\ UNCHANGED <<tree, dirs, stray, moves, updated, log, pending, errors, links,
                   clsVars, resVars>>

\* main, lines 198-211: the tree is scanned; rglob yields the files in the
\* order of the directory listings, any order here
Scan ==
    /\ pc = "scan"
    /\ \E order \in Orders(find_stray_markdown(tree)) :
          IF fix /\ order # <<>>
          THEN /\ stray' = order
               /\ pc' = "move"
               /\ UNCHANGED <<fix, moves, updated, start, status, log>>
          ELSE IF order # <<>>
               THEN Finish(1, MsgFound(Len(order)), tree)
               ELSE /\ stray' = order
                    /\ pc' = "docsroot"
                    /\ UNCHANGED <<fix, moves, updated, start, status, log>>
    /\ UNCHANGED <<tree, dirs, pending, errors, links, clsVars, resVars>>

\* a slip that moves onto an existing destination
MoveStepOverwrite ==
    /\ pc = "move"
    /\ LET source == stray[Len(moves) + 1]
           target_dir == guess_target_folder(Stem(source))
           destination == Child(target_dir, <<Name(source)>>)
       IN  /\ dirs' = Mkdir(dirs, target_dir)
           /\ tree' = MoveFile(tree, source, destination)
           /\ moves' = Append(moves, <<source, destination>>)
           /\ pc' = IF Len(moves') = Len(stray) THEN "links" ELSE "move"
           /\ UNCHANGED <<fix, stray, updated, start, status, log>>
    /\ UNCHANGED <<pending, errors, links, clsVars, resVars>>

\* one turn of the loop of move_stray_files, lines 118-128; after the last
\* turn main goes on to update_links
MoveStep ==
    /\ pc = "move"
    /\ LET source == stray[Len(moves) + 1]
           target_dir == guess_target_folder(Stem(source))
           destination == Child(target_dir, <<Name(source)>>)
       IN  /\ dirs' = Mkdir(dirs, target_dir)
           /\ IF Exists(tree, dirs', destination)
              THEN /\ Finish(1, MsgOverwrite(destination), tree)
                   /\ UNCHANGED tree
              ELSE /\ tree' = MoveFile(tree, source, destination)
                   /\ moves' = Append(moves, <<source, destination>>)
                   /\ pc' = IF Len(moves') = Len(stray) THEN "links" ELSE "move"
                   /\ UNCHANGED <<fix, stray, updated, start, status, log>>
    /\ UNCHANGED <<pending, errors, links, clsVars, resVars>>

\* update_links(moves), lines 142-179: every text file is read, rewritten
\* for each move and written back when it changed; the files come in the
\* order rglob yields them, any order here
UpdateLinks ==
    /\ pc = "links"
    /\ \E new \in RewrittenTrees({tree}, iter_text_files(tree), moves) :
          /\ tree' = new
          /\ updated' \in Orders({f \in DOMAIN tree : new[f] # tree[f]})
    /\ pc' = "docsroot"
    /\ UNCHANGED <<dirs, fix, stray, moves, start, status, log, pending, errors, links,
                   clsVars, resVars>>

\* ensure_docs_root_only_index, and the return from main of a run without --fix
DocsRoot ==
    /\ pc = "docsroot"
    /\ IF DocsRootStrays(tree) # {}
       THEN \E order \in Orders(DocsRootStrays(tree)) : Finish(1, MsgDocsRoot(order), tree)
       ELSE IF fix
            THEN pc' = "postcheck" /\ UNCHANGED <<fix, stray, moves, updated, start, status, log>>
            ELSE Finish(0, MsgComplete, tree)
    /\ UNCHANGED <<tree, dirs, pending, errors, links, clsVars, resVars>>

\* main, lines 215-224: the second scan of a run with --fix
PostCheck ==
    /\ pc = "postcheck"
    /\ IF find_stray_markdown(tree) # {}
       THEN \E order \in Orders(find_stray_markdown(tree)) :
                Finish(1, MsgRemaining(order), tree)
       ELSE Finish(0, MsgComplete, tree)
    /\ UNCHANGED <<tree, dirs, pending, errors, links, clsVars, resVars>>

-----------------------------------------------------------------------------
(* The organizer: runs of main, with or without --fix, one after the other *)
(* on a tree drawn from the files below.                                   *)

ReadmeMd == <<<<"R","E","A","D","M","E",".","m","d">>>>
XMd == <<<<"x",".","m","d">>>>
AXMd == <<<<"a">>, <<"x",".","m","d">>>>
SecurityNotesMd == <<<<"S","E","C","U","R","I","T","Y","_","N","O","T","E","S",".","m","d">>>>
DocsYMd == <<<<"d","o","c","s">>, <<"y",".","m","d">>>>
SecurityDestMd == <<<<"d","o","c","s">>, <<"s","e","c","u","r","i","t","y">>, <<"S","E","C","U","R","I","T","Y","_","N","O","T","E","S",".","m","d">>>>
TestsBMd == <<<<"t","e","s","t","s">>, <<"b",".","m","d">>>>

\* the files a tree is made of: an allowed root file, stray files (two of
\* them with the same name), a file misplaced in the docs root, a file that
\* sits where a stray file is to go, and an allowed file one level down
Universe ==
    {ReadmeMd, XMd, AXMd, SecurityNotesMd, DocsYMd, SecurityDestMd, TestsBMd}

\* the files links point at, and the ways a link to them is spelled
LinkTargets == {XMd, ReadmeMd, SecurityNotesMd}
Spellings == {<<>>, <<".","/">>, <<".",".","/">>, <<".","/",".",".","/">>}
OrgHrefs == {s \o AsPosix(t) : s \in Spellings, t \in LinkTargets}

\* a Markdown link to h
LinkTo(h) == <<" ","[","l","]","(">> \o h \o <<")">>

\* the text of a file: a heading that tells the files apart, then its links
TextOf(path, hs) ==
    <<"#"," ">> \o Upper(AsPosix(path)) \o Concat([i \in 1..Len(hs) |-> LinkTo(hs[i])])

\* the hrefs placed in file f by a sequence of (file, href) placements
Placed(f, placements) ==
    LET mine == SelectSeq(placements, LAMBDA pl : pl[1] = f)
    IN  [i \in 1..Len(mine) |-> mine[i][2]]

\* the tree with the given files and links
DrawTree(files, placements) ==
    /\ links = [f \in files |-> Placed(f, placements)]
    /\ tree = [f \in files |-> TextOf(f, links[f])]
    /\ dirs = UNION {Ancestors(f) : f \in files}

Init ==
    /\ \E files \in {S \in SUBSET Universe : Cardinality(S) <= MaxFiles} :
          \E placements \in SeqUpTo(files \X OrgHrefs, MaxLinks) :
              DrawTree(files, placements)
    /\ pc = "idle"
    /\ fix = FALSE /\ stray = <<>> /\ moves = <<>> /\ pending = {} /\ updated = <<>>
    /\ status = NoStatus /\ log = <<>> /\ start = <<>> /\ errors = <<>>
    /\ ClsIdle /\ ResIdle

Next == Launch \/ Scan \/ MoveStep \/ UpdateLinks \/ DocsRoot \/ PostCheck

Spec == Init /\ [][Next]_vars

-----------------------------------------------------------------------------
(* Claims about the organizer.                                             *)

\* the Markdown files of a tree that the scan sees and that sit outside the
\* allowed places
Misplaced(t) ==
    {p \in DOMAIN t : /\ EndsWith(Name(p), <<".","m","d">>)
                      /\ \A i \in 1..Len(p) : p[i] \notin SKIP_DIRS
                      /\ p \notin ALLOWED_ROOT_FILES
                      /\ \A prefix \in ALLOWED_PREFIXES : ~IsUnder(p, prefix)}

\* a finished run ended on the refusal to overwrite
Refused(e) == StartsWith(e.message, <<"R","e","f","u","s","i","n","g"," ","t","o"," ","o","v","e","r","w","r","i","t","e"," ","e","x","i","s","t","i","n","g"," ","f","i","l","e",":"," ">>)

Sources(e) == {e.moves[j][1] : j \in 1..Len(e.moves)}

\* the tree of a run is the tree it started from with its completed moves
\* carried out and nothing else: no other file appeared, went or changed
OnlyMoved(e) ==
    /\ DOMAIN e.after =
          (DOMAIN e.before \ Sources(e)) \cup {e.moves[j][2] : j \in 1..Len(e.moves)}
    /\ \A j \in 1..Len(e.moves) : e.after[e.moves[j][2]] = e.before[e.moves[j][1]]
    /\ \A p \in DOMAIN e.before \ Sources(e) : e.after[p] = e.before[p]

\* some stray file of the tree is bound for a place that is taken, by a file
\* of the tree or by another stray file of the same name
HasConflict(t) ==
    \E s \in Misplaced(t) :
        \/ Destination(s) \in DOMAIN t
        \/ \E s2 \in Misplaced(t) \ {s} : Destination(s2) = Destination(s)

\* C1: a run with --fix over a tree with a destination conflict ends on the
\* refusal; the refusal names the destination of a stray file that is still
\* in place and whose destination exists; the tree is then the starting tree
\* with the moves completed before and nothing else changed (the file at the
\* destination has the text it had, the stray files not moved are where they
\* were with their text, no link was rewritten)
C1_NoOverwrite ==
    \A i \in DOMAIN log :
        LET e == log[i]
        IN  /\ (e.fix /\ HasConflict(e.before)) => Refused(e)
            /\ Refused(e) =>
                  /\ e.code = 1
                  /\ \E s \in Misplaced(e.before) \ Sources(e) :
                        /\ Destination(s) \in DOMAIN e.after
                        /\ e.message = MsgOverwrite(Destination(s))
                        /\ s \in DOMAIN e.after
                        /\ e.after[s] = e.before[s]
                  /\ OnlyMoved(e)
                  /\ e.updated = <<>>
                  /\ \A s \in Misplaced(e.before) \ Sources(e) :
                        s \in DOMAIN e.after /\ e.after[s] = e.before[s]

\* x.md was moved to docs/misc/x.md, then a/x.md met it there: the run was
\* refused, README.md still holds its link to x.md
C1_Witness ==
    \E i \in DOMAIN log :
        /\ Refused(log[i])
        /\ log[i].moves = <<<<XMd, <<<<"d","o","c","s">>, <<"m","i","s","c">>, <<"x",".","m","d">>>>>>>>
        /\ AXMd \in DOMAIN log[i].after
        /\ ReadmeMd \in DOMAIN log[i].after
        /\ Contains(log[i].after[ReadmeMd], <<"(","x",".","m","d",")">>)

\* C9 as stated: the refusal reports the number of moves completed before it
C9_ReportsCount ==
    \A i \in DOMAIN log :
        Refused(log[i]) =>
            /\ OnlyMoved(log[i])
            /\ Contains(log[i].message, Str(Len(log[i].moves)))

\* C4: after a run with --fix that ends with code 0 no Markdown file the scan
\* sees is outside the allowed places, and a run with --fix right after it
\* moves nothing and leaves every file as it is
C4_Idempotent ==
    \A i \in DOMAIN log :
        (log[i].fix /\ log[i].code = 0) =>
            /\ Misplaced(log[i].after) = {}
            /\ (i + 1 \in DOMAIN log /\ log[i + 1].fix) =>
                  /\ log[i + 1].moves = <<>>
                  /\ log[i + 1].updated = <<>>
                  /\ log[i + 1].after = log[i].after
                  /\ log[i + 1].code = 0

\* a run with --fix moved two files and rewrote a link, the run with --fix
\* after it found nothing to do
C4_Witness ==
    /\ Len(log) >= 2
    /\ log[1].fix /\ log[1].code = 0 /\ Len(log[1].moves) = 2 /\ log[1].updated # <<>>
    /\ log[2].fix /\ log[2].code = 0

\* every link of every Markdown file the checker would test resolves to
\* something that exists in the tree
AllResolve(t) ==
    \A f \in iter_markdown(t) :
        LET hs == LinkHrefs(t[f])
        IN  \A i \in 1..Len(hs) : should_check(hs[i]) => ~Broken(t, f, hs[i])

\* C8 as stated: when every link resolves before a run with --fix that ends
\* with code 0, every link resolves after it
C8_LinksKeepResolving ==
    \A i \in DOMAIN log :
        (log[i].fix /\ log[i].code = 0 /\ AllResolve(log[i].before))
            => AllResolve(log[i].after)

\* the scenario of C6: SECURITY_NOTES.md at the root is the only stray file,
\* and the first run is without --fix
Scenario ==
    /\ log # <<>>
    /\ Misplaced(log[1].before) = {SecurityNotesMd}
    /\ ~log[1].fix

\* the text files of the tree, the moved file left out, in which the old
\* root-relative spelling of the file occurs
Referencing(t, moved) ==
    {f \in DOMAIN t \ {moved} : Contains(t[f], AsPosix(SecurityNotesMd))}

\* the second run moved the file to dest and rewrote every referencing file
MovedTo(dest) ==
    /\ log[2].moves = <<<<SecurityNotesMd, dest>>>>
    /\ dest \in DOMAIN log[2].after
    /\ SecurityNotesMd \notin DOMAIN log[2].after
    /\ \A f \in Referencing(log[2].before, SecurityNotesMd) :
          /\ log[2].after[f] # log[2].before[f]
          /\ \E k \in 1..Len(log[2].updated) : log[2].updated[k] = f

-----------------------------------------------------------------------------
(* update_links on its own: x.md has been moved to docs/misc/x.md, a file  *)
(* that links to x.md is drawn, update_links is applied to the move.       *)

ABMd == <<<<"a">>, <<"b",".","m","d">>>>
MiscXMd == <<<<"d","o","c","s">>, <<"m","i","s","c">>, <<"x",".","m","d">>>>

\* the four spellings of a link to x.md
XHrefs == {s \o AsPosix(XMd) : s \in Spellings}

\* where the linking file sits: one level down, at the root, two levels down
LinkingFiles == {ABMd, ReadmeMd, <<<<"a">>, <<"c">>, <<"d",".","m","d">>>>}

InitRewrite ==
    /\ \E f \in LinkingFiles, hs \in SeqUpTo(XHrefs, MaxHrefs) :
          /\ links = (f :> hs) @@ (MiscXMd :> <<>>)
          /\ tree = (f :> TextOf(f, hs)) @@ (MiscXMd :> TextOf(XMd, <<>>))
          /\ dirs = Ancestors(f) \cup Ancestors(MiscXMd)
    /\ start = tree
    /\ fix = TRUE
    /\ stray = <<XMd>>
    /\ moves = <<<<XMd, MiscXMd>>>>
    /\ pc = "links"
    /\ pending = {} /\ updated = <<>> /\ status = NoStatus /\ log = <<>> /\ errors = <<>>
    /\ ClsIdle /\ ResIdle

NextRewrite == UpdateLinks

SpecRewrite == InitRewrite /\ [][NextRewrite]_vars

\* C2 as stated: after update_links every link of a/b.md that was written in
\* one of the four spellings of x.md reads ../docs/misc/x.md
C2_LinkRewritten ==
    (pc = "docsroot" /\ ABMd \in DOMAIN tree) =>
        LinkHrefs(tree[ABMd]) = [i \in 1..Len(links[ABMd]) |-> <<".",".","/","d","o","c","s","/","m","i","s","c","/","x",".","m","d">>]

\* C10 as stated: the text update_links leaves in a file is the same for
\* every order in which the old spellings are tried
C10_OrderIndependent ==
    pc = "docsroot" =>
        \A f \in DOMAIN tree : Rewritings({start[f]}, f, moves) = {tree[f]}

-----------------------------------------------------------------------------
(* verify-markdown-links.py: main, on a tree drawn from the files below.   *)

VendorVMd == <<<<"v","e","n","d","o","r">>, <<"v",".","m","d">>>>

\* an allowed root file, a file one level down, a file in a skipped directory
CheckUniverse == {ReadmeMd, DocsA, VendorVMd}

\* links that resolve when their target is in the tree, links that never
\* do, links out of the tree, and links the checker does not test
CheckHrefs ==
    {<<"d","o","c","s","/","a",".","m","d">>, <<".",".","/","R","E","A","D","M","E",".","m","d">>, <<"/","d","o","c","s","/","a",".","m","d">>, <<"m","i","s","s","i","n","g",".","m","d">>,
     <<".",".","/",".",".","/","o","u","t","s","i","d","e",".","m","d">>, <<"h","t","t","p","s",":","/","/","e","x","a","m","p","l","e",".","c","o","m","/","x",".","m","d">>, <<"#","s","e","c","t","i","o","n">>, <<"c",".","t","x","t">>}

InitCheck ==
    /\ \E files \in SUBSET CheckUniverse :
          \E placements \in SeqUpTo(files \X CheckHrefs, MaxHrefs) :
              DrawTree(files, placements)
    /\ pending = iter_markdown(tree)
    /\ errors = <<>>
    /\ pc = "check"
    /\ fix = FALSE /\ stray = <<>> /\ moves = <<>> /\ updated = <<>>
    /\ status = NoStatus /\ log = <<>> /\ start = <<>>
    /\ ClsIdle /\ ResIdle

\* f"{rel} -> {href}"
ErrorLine(md, h) == AsPosix(md) \o <<" ","-",">"," ">> \o h

\* the inner loop of main, lines 88-96, over the hrefs LINK_RE found in one
\* file: the error lines it appends
RECURSIVE ErrorsOf(_, _, _)
ErrorsOf(t, md, hs) ==
    IF hs = <<>> THEN <<>>
    ELSE (IF should_check(Head(hs)) /\ Broken(t, md, Head(hs))
          THEN <<ErrorLine(md, Head(hs))>>
          ELSE <<>>) \o ErrorsOf(t, md, Tail(hs))

\* a slip that leaves a file at its first broken link
FileErrorsFirstOnly(t, md) ==
    LET all == ErrorsOf(t, md, LinkHrefs(t[md]))
    IN  IF all = <<>> THEN <<>> ELSE <<all[1]>>

\* lines 88-96 on the text of one file
FileErrors(t, md) == ErrorsOf(t, md, LinkHrefs(t[md]))

\* one turn of the outer loop of main, lines 82-96, on one of the files
\* iter_markdown returned, in the order rglob yielded them, any order here
CheckFile ==
    /\ pc = "check"
    /\ \E f \in pending :
          /\ errors' = errors \o FileErrors(tree, f)
          /\ pending' = pending \ {f}
    /\ UNCHANGED <<tree, dirs, fix, pc, stray, moves, updated, status, log, start, links,
                   clsVars, resVars>>

\* main, lines 98-106: the report and the exit code
Report ==
    /\ pc = "check"
    /\ pending = {}
    /\ status' = [code |-> IF errors # <<>> THEN 1 ELSE 0,
                  message |-> IF errors # <<>> THEN <<"B","r","o","k","e","n"," ","M","a","r","k","d","o","w","n"," ","l","i","n","k","s"," ","f","o","u","n","d",":">>
                              ELSE <<"M","a","r","k","d","o","w","n"," ","l","i","n","k"," ","c","h","e","c","k"," ","p","a","s","s","e","d",".">>]
    /\ pc' = "checked"
    /\ UNCHANGED <<tree, dirs, fix, stray, moves, pending, updated, log, start, errors,
                   links, clsVars, resVars>>

NextCheck == CheckFile \/ Report

SpecCheck == InitCheck /\ [][NextCheck]_vars

\* how many times x occurs in the list s
Count(s, x) == Cardinality({i \in DOMAIN s : s[i] = x})

\* an href in scope: it targets a Markdown file, carries no external
\* scheme, is not protocol-relative and is not a pure fragment
InScope(h) ==
    /\ h # <<>>
    /\ Head(h) # "#"
    /\ ~StartsWith(h, <<"/","/">>)
    /\ \A s \in RefSchemes : ~StartsWith(Lower(h), s)
    /\ EndsWith(Before(Before(h, "#"), "?"), <<".","m","d">>)

\* the file is a Markdown file out of the skipped directories
Scanned(f) == EndsWith(Name(f), <<".","m","d">>) /\ \A i \in 1..Len(f) : f[i] \notin SKIP_DIRS

\* the target of an href of CheckHrefs written in file f, None out of the tree
Aimed(f, h) == RefTarget(f, [lead |-> IF Head(h) = "/" THEN <<"/">> ELSE <<>>,
                             segs |-> PathOf(h), tail |-> <<>>])

\* the links written into the files the checker scans that it has to report:
\* in scope, and aimed out of the tree or at nothing that exists
Reportable(f, h) ==
    /\ Scanned(f)
    /\ InScope(h)
    /\ \/ Aimed(f, h) = NoPath
       \/ ~Exists(tree, dirs, Aimed(f, h))

\* C7: when the checker ends, its error list holds one line "file -> href"
\* for each link occurrence in a scanned file whose target is out of the tree
\* or does not exist, and no other line; the exit code is 1 when the list is
\* not empty and 0 when it is
C7_Aggregation ==
    pc = "checked" =>
        /\ \A f \in DOMAIN links : \A h \in CheckHrefs :
              Count(errors, ErrorLine(f, h)) =
                  IF Reportable(f, h) THEN Count(links[f], h) ELSE 0
        /\ \A k \in DOMAIN errors :
              \E f \in DOMAIN links : \E h \in CheckHrefs : errors[k] = ErrorLine(f, h)
        /\ status.code = IF errors = <<>> THEN 0 ELSE 1

\* the checker ended after reporting both broken links of one file
C7_Witness ==
    /\ pc = "checked"
    /\ Len(errors) = 2
    /\ errors[1] = ErrorLine(DocsA, <<"m","i","s","s","i","n","g",".","m","d">>)
    /\ errors[2] = ErrorLine(DocsA, <<".",".","/",".",".","/","o","u","t","s","i","d","e",".","m","d">>)
    /\ status.code = 1

=============================================================================
